---- MODULE Spec2Model ----
(***************************************************************************)
(* A model of aoc-tool (src/src/main.rs): the cargo subcommand that        *)
(* scaffolds, fetches, opens, edits and runs Advent of Code days.          *)
(*                                                                         *)
(* The state is the workspace on disk (template, src/bin/day{N}.rs,        *)
(* inputs/day{N}) together with, for every invocation of the tool, its     *)
(* command line, its environment, the registry it built, its position in   *)
(* main() and the list of external effects it has performed so far.        *)
(* Every action is one step of main(), fetch() or open_problem() that      *)
(* touches the outside world at most once.                                 *)
(*                                                                         *)
(* Values of type Option<T> are sets: None is {} and Some(x) is {x}.       *)
(* Strings the program formats or parses are sequences of one-character    *)
(* strings; file contents are sequences of tokens.                         *)
(*                                                                         *)
(* u64 arithmetic: day numbers stay at or below MaxDay + 1, far from 2^64, *)
(* so `*k + 1` never overflows in the model.                               *)
(***************************************************************************)
EXTENDS Integers, Sequences, FiniteSets, TLC

\* ------------------------------------------------------------------ bounds

\* Largest day number given on the command line or used in a target name.
MaxDay == 2
\* Longest list of build targets cargo metadata reports.
MaxTargets == 2
\* Longest HTTP response body, in bytes.
MaxBodyLen == 2
\* Invocations of New one after the other (the same command line again).
MaxRuns == 2

\* ----------------------------------------------------------------- options

None == {}
Some(x) == {x}
IsSome(o) == o # {}
Unwrap(o) == CHOOSE x \in o : TRUE
\* Option::unwrap_or
UnwrapOr(o, dflt) == IF IsSome(o) THEN Unwrap(o) ELSE dflt
\* Option::or
OrElse(o, other) == IF IsSome(o) THEN o ELSE other

\* ----------------------------------------------------------------- strings

Digit == <<"0", "1", "2", "3", "4", "5", "6", "7", "8", "9">>

\* The value of a decimal digit character, None for any other character.
DigitVal(c) == {i - 1 : i \in {j \in 1..10 : Digit[j] = c}}

RECURSIVE FormatU64(_)
\* format!("{day}") of a u64: its decimal digits, no padding.
FormatU64(n) ==
    IF n < 10 THEN <<Digit[n + 1]>>
    ELSE FormatU64(n \div 10) \o <<Digit[(n % 10) + 1]>>

RECURSIVE ParseDigits(_, _)
\* The digits of s folded left to right onto acc; None at the first character
\* that is no decimal digit.
ParseDigits(s, acc) ==
    IF s = <<>> THEN Some(acc)
    ELSE IF DigitVal(Head(s)) = None THEN None
    ELSE ParseDigits(Tail(s), acc * 10 + Unwrap(DigitVal(Head(s))))

\* str::parse::<u64>: an empty string and a lone sign are errors, one leading
\* "+" is accepted, "-" is an invalid digit for an unsigned type.
ParseU64(s) ==
    IF s = <<>> THEN None
    ELSE IF Len(s) = 1 /\ Head(s) \in {"+", "-"} THEN None
    ELSE IF Head(s) = "+" THEN ParseDigits(Tail(s), 0)
    ELSE ParseDigits(s, 0)

DayPrefix == <<"d", "a", "y">>

\* str::strip_prefix("day")
StripPrefixDay(name) ==
    IF Len(name) >= Len(DayPrefix) /\ SubSeq(name, 1, Len(DayPrefix)) = DayPrefix
    THEN Some(SubSeq(name, Len(DayPrefix) + 1, Len(name)))
    ELSE None

\* format!("day{day}")
DayName(d) == DayPrefix \o FormatU64(d)

\* str::contains with a non-empty pattern, on token sequences.
Contains(text, pat) ==
    \E i \in 1..(Len(text) - Len(pat) + 1) : SubSeq(text, i, i + Len(pat) - 1) = pat

\* ------------------------------------------------------------------- paths

\* A path is <<directory, file name>> below the workspace root.
TemplatePath == <<"", <<"template.rs">>>>
\* workspace_root.join(format!("src/bin/day{day}.rs"))
DayFile(d) == <<"src/bin", DayName(d) \o <<".rs">>>>
\* Every input going to the file of day 1.
InputFileFirst(d) == <<"inputs", DayPrefix \o <<"1">>>>
\* input_dir.join(format!("day{day}"))
InputFile(d) == <<"inputs", DayName(d)>>
\* The source path cargo reports for a binary target of that name.
SrcPath(name) == <<"src/bin", name \o <<".rs">>>>

\* ------------------------------------------------------------ file contents

\* r#"todo!("todo part2")"# as tokens.
Marker == <<"todo!", "(", "todo part2", ")">>
\* A template whose part 2 is the marker.
TemplateText == <<"fn part2", "{">> \o Marker \o <<"}">>
\* Another template, and a solved day: part 2 written, a near miss of the marker.
SolvedText == <<"fn part2", "{", "todo!", "(", "todo part1", ")", "}">>
Texts == {TemplateText, SolvedText}

\* A puzzle input of n bytes (inputs of different lengths share no byte), and
\* the page served with an error status.
Body(n) == [i \in 1..n |-> Digit[n + 1]]
ErrorPage == <<"e">>
\* The input file left by an earlier fetch.
OldInput == <<"o", "l", "d">>

\* ------------------------------------------------------------ command line

Days == 1..MaxDay
\* Days whose files the model tracks: New may resolve max key + 1.
FileDays == 1..(MaxDay + 1)

Year == 2023

\* A session cookie as bytes: "ab", and "a\nb" which no header value may hold.
GoodCookie == <<97, 98>>
BadCookie == <<97, 10, 98>>
Cookies == {None, Some(GoodCookie), Some(BadCookie)}

\* Part as clap parses it: absent, or the variant One or Two.
Parts == {None, Some("One"), Some("Two")}

\* An explicit input path for run.
CustomInput == <<"", <<"custom.txt">>>>

\* Names of build targets: day1..day{MaxDay}, a target that is no day, and a
\* target whose suffix is no number.
TargetNames ==
    {DayName(d) : d \in Days} \cup {<<"m", "a", "i", "n">>, <<"d", "a", "y", "x">>}

\* A build target as cargo metadata reports it.
Target(name) == [name |-> name, src_path |-> SrcPath(name)]

\* package.targets: every list of at most MaxTargets distinct targets.
TargetLists ==
    UNION {{ts \in [1..n -> {Target(nm) : nm \in TargetNames}] :
               \A i, j \in 1..n : i # j => ts[i] # ts[j]} : n \in 0..MaxTargets}

\* The targets cargo discovers by itself under a default manifest: one for
\* every file src/bin/{name}.rs there is (fs is the workspace, a function from
\* paths to Option<contents>).
Discovered(fs) == {Target(nm) : nm \in {n \in TargetNames : fs[SrcPath(n)] # None}}

Commands == {"New", "Run", "Fetch", "Open", "Edit"}

\* Args after clap: the global options and the flags of the chosen subcommand
\* (the flags of the other subcommands do not exist and stay at their defaults).
ArgsOf(cmd) ==
    {[command |-> cmd, year |-> Year, cookie |-> c, day |-> d,
      no_edit |-> ne, no_open |-> no, force |-> f, no_fetch |-> nf,
      release |-> r, part |-> pt, input |-> i] :
        c \in (IF cmd \in {"New", "Fetch"} THEN Cookies ELSE {None, Some(GoodCookie)}),
        d \in {None} \cup {Some(n) : n \in Days},
        ne \in (IF cmd = "New" THEN BOOLEAN ELSE {FALSE}),
        no \in (IF cmd = "New" THEN BOOLEAN ELSE {FALSE}),
        f \in (IF cmd = "New" THEN BOOLEAN ELSE {FALSE}),
        nf \in (IF cmd = "New" THEN BOOLEAN ELSE {FALSE}),
        r \in (IF cmd = "Run" THEN BOOLEAN ELSE {FALSE}),
        pt \in (IF cmd = "Run" THEN Parts ELSE {None}),
        i \in (IF cmd = "Run" THEN {None, Some(CustomInput)} ELSE {None})}

\* std::env::var(name): the variable is set, or it is not.
EnvValues(name) == {None, Some(IF name = "EDITOR" THEN "vi" ELSE "cargo")}

\* ---------------------------------------------------------------- registry

RECURSIVE CollectSkipBad(_, _)
\* A collection that drops a name whose suffix does not parse.
CollectSkipBad(ts, acc) ==
    IF ts = <<>> THEN [ok |-> TRUE, map |-> acc]
    ELSE LET t == Head(ts)
             suffix == StripPrefixDay(t.name)
         IN  IF suffix = None \/ ParseU64(Unwrap(suffix)) = None
             THEN CollectSkipBad(Tail(ts), acc)
             ELSE CollectSkipBad(Tail(ts),
                                 (Unwrap(ParseU64(Unwrap(suffix))) :> t.src_path) @@ acc)

RECURSIVE CollectWhile(_, _)
\* A collection that stops at the first name without the "day" prefix.
CollectWhile(ts, acc) ==
    IF ts = <<>> THEN [ok |-> TRUE, map |-> acc]
    ELSE LET t == Head(ts)
             suffix == StripPrefixDay(t.name)
         IN  IF suffix = None THEN [ok |-> TRUE, map |-> acc]
             ELSE IF ParseU64(Unwrap(suffix)) = None THEN [ok |-> FALSE, map |-> <<>>]
             ELSE CollectWhile(Tail(ts),
                               (Unwrap(ParseU64(Unwrap(suffix))) :> t.src_path) @@ acc)

RECURSIVE Collect(_, _)
\* filter_map + collect::<Result<BTreeMap, _>>: targets in order, a name without
\* the "day" prefix is dropped, a suffix that does not parse ends the collection
\* with the error, and a later target replaces an earlier one of the same key.
Collect(ts, acc) ==
    IF ts = <<>> THEN [ok |-> TRUE, map |-> acc]
    ELSE LET t == Head(ts)
             suffix == StripPrefixDay(t.name)
         IN  IF suffix = None THEN Collect(Tail(ts), acc)
             ELSE IF ParseU64(Unwrap(suffix)) = None THEN [ok |-> FALSE, map |-> <<>>]
             ELSE Collect(Tail(ts),
                          (Unwrap(ParseU64(Unwrap(suffix))) :> t.src_path) @@ acc)

\* `problems`: the BTreeMap from day number to source path.
Registry(ts) == Collect(ts, <<>>)

\* BTreeMap::last_key_value().map(|(k, _)| *k)
LastKey(map) ==
    IF DOMAIN map = {} THEN None
    ELSE Some(CHOOSE k \in DOMAIN map : \A j \in DOMAIN map : j <= k)

\* A lookup that falls back to the last day's file.
GetOrLast(map, k) ==
    IF k \in DOMAIN map THEN Some(map[k]) ELSE {map[j] : j \in LastKey(map)}
\* BTreeMap::get
Get(map, k) == IF k \in DOMAIN map THEN Some(map[k]) ELSE None

\* -------------------------------------------------------------- resolution

\* New resolving the last key itself.
ResolveNewLast(day, map) == UnwrapOr(day, UnwrapOr(LastKey(map), 1))
\* New: args.day.unwrap_or(last key + 1, or 1 for an empty registry)
ResolveNew(day, map) == UnwrapOr(day, UnwrapOr({k + 1 : k \in LastKey(map)}, 1))
\* Fetch letting the registry win over the explicit day.
ResolveFetchRegistryFirst(day, map) == UnwrapOr(LastKey(map), UnwrapOr(day, 1))
\* Fetch: args.day.unwrap_or(last key, or 1 for an empty registry)
ResolveFetch(day, map) == UnwrapOr(day, UnwrapOr(LastKey(map), 1))
\* Open, Edit, Run defaulting to day 1 as Fetch does.
ResolveExistingOrOne(day, map) == Some(UnwrapOr(day, UnwrapOr(LastKey(map), 1)))
\* Open, Edit, Run: args.day.or(last key), None when there is neither
ResolveExisting(day, map) == OrElse(day, LastKey(map))

\* --------------------------------------------------------------------- new

\* No refusal at all.
RefuseNever(existing, force) == existing # None /\ ~force /\ FALSE
\* The refusal with `force` read the wrong way round.
RefuseIfForced(existing, force) == existing # None /\ force
\* day_file.exists() && !force
RefuseClobber(existing, force) == existing # None /\ ~force

\* New looking at the template only when it is not forced.
NewEntryForceFirst(tmpl, existing, force) ==
    IF force THEN "new_copy"
    ELSE IF tmpl = None THEN "NoTemplate"
    ELSE IF RefuseClobber(existing, force) THEN "AlreadyExists"
    ELSE "new_copy"
\* Lines 138-149: where New goes first: out with an error when there is no
\* template, out with another when the day file is refused, else to the copy.
NewEntry(tmpl, existing, force) ==
    IF tmpl = None THEN "NoTemplate"
    ELSE IF RefuseClobber(existing, force) THEN "AlreadyExists"
    ELSE "new_copy"

\* ------------------------------------------------------------------- fetch

\* HeaderValue::from_str: every byte is visible ASCII, a tab, or above 127.
HeaderValid(bytes) ==
    \A i \in 1..Len(bytes) : (bytes[i] >= 32 /\ bytes[i] # 127) \/ bytes[i] = 9

\* format!("session={cookie}") as bytes
SessionHeader(cookie) == <<115, 101, 115, 115, 105, 111, 110, 61>> \o cookie

\* What the site answers: the input with status 200, or an error page with
\* status 404. send() returns Ok for either: a status is no transport error.
Responses ==
    {[status |-> 200, body |-> Body(n)] : n \in 1..MaxBodyLen}
        \cup {[status |-> 404, body |-> ErrorPage]}

\* fetch() creating inputs/ before it looks at the cookie.
FetchEntryDirFirst(cookie, dirExists) ==
    IF ~dirExists THEN "fetch_mkdir"
    ELSE IF cookie = None THEN "NoCookie"
    ELSE "fetch_get"
\* Lines 68-74: where fetch() goes first: out with an error when there is no
\* cookie, else to create inputs/ when it is missing, else to the request.
FetchEntry(cookie, dirExists) ==
    IF cookie = None THEN "NoCookie"
    ELSE IF ~dirExists THEN "fetch_mkdir"
    ELSE "fetch_get"

\* Writing `bytes` through a descriptor opened at offset 0: they replace the
\* first bytes of what the file holds, and what lies beyond them stays.
WriteAt0(old, bytes) == bytes \o SubSeq(old, Len(bytes) + 1, Len(old))

\* --------------------------------------------------------------------- run

\* The default with the two parts swapped.
DefaultPartSwapped(text) == IF Contains(text, Marker) THEN "Two" ELSE "One"
\* The part chosen when none is given, from the text of the day's source.
DefaultPart(text) == IF Contains(text, Marker) THEN "One" ELSE "Two"
\* part.unwrap_or_else(..)
ChoosePart(part, text) == UnwrapOr(part, DefaultPart(text))
\* match part { Part::One => "1", Part::Two => "2" }
PartArg(part) == IF part = "One" THEN "1" ELSE "2"

\* The argument vector handed to cargo.
CargoArgs(day, release, part, input) ==
    <<"run", "--bin", DayName(day)>>
        \o (IF release THEN <<"--release">> ELSE <<>>)
        \o <<"--", "--part", PartArg(part), "--input",
             UnwrapOr(input, <<"inputs", DayName(day)>>)>>

\* Exit statuses of a child process.
ExitCodes == {0, 1}

\* How spawning a child and waiting for it can end; `log` is what the effect
\* records of it.
ChildOutcomes ==
    {[kind |-> k, code |-> 0, log |-> <<k>>] : k \in {"spawn_err", "wait_err"}}
        \cup {[kind |-> "exit", code |-> c, log |-> <<"exit", c>>] : c \in ExitCodes}

\* Line 238, `cargo.status()?;`: the error it returns, if any: the child could
\* not be spawned or not be waited for; the ExitStatus is dropped.
StatusError(o) ==
    IF o.kind = "spawn_err" THEN Some("Spawn")
    ELSE IF o.kind = "wait_err" THEN Some("Wait")
    ELSE None

\* open_problem() treating a non-zero exit status as an error.
OpenProblemErrorOnExit(o) ==
    IF o.kind = "spawn_err" THEN Some("Spawn")
    ELSE IF o.kind = "wait_err" THEN Some("Wait")
    ELSE IF o.code # 0 THEN Some("Exit")
    ELSE None
\* Lines 98-102: the error open_problem() returns, if any: spawn()? and wait()?
\* fail, the ExitStatus wait() yields is dropped.
OpenProblemError(o) ==
    IF o.kind = "spawn_err" THEN Some("Spawn")
    ELSE IF o.kind = "wait_err" THEN Some("Wait")
    ELSE None

\* The exit status of the tool: main() returning Ok(()) exits 0, an Err exits 1.
ExitStatus(res) == IF res = "Ok" THEN 0 ELSE 1

\* -------------------------------------------------------------------- state

\* Invocations of the tool; under Spec only the first one runs.
Procs == {1, 2}

\* Every path the tool can name within the bounds.
Paths ==
    {TemplatePath} \cup {DayFile(d) : d \in FileDays}
        \cup {InputFile(d) : d \in FileDays} \cup {SrcPath(nm) : nm \in TargetNames}

VARIABLES
    files,      \* the workspace: path -> Option<contents>
    inputDir,   \* whether the directory inputs/ exists
    pc,         \* per invocation: its position in main()
    args,       \* per invocation: Args
    env,        \* per invocation: the environment variables read so far
    targets,    \* per invocation: package.targets
    problems,   \* per invocation: the registry
    day,        \* per invocation: Option<the resolved day>
    file,       \* per invocation: Option<day_file / main_file / file>
    part,       \* per invocation: Option<the part Run chose>
    data,       \* per invocation: Option<the response body>
    result,     \* per invocation: "" while running, "Ok", "Exec" or the error
    effects,    \* per invocation: the external effects so far, in order
    snap,       \* per invocation: files and inputDir when it started
    runs,       \* per invocation slot: invocations started so far
    last        \* per invocation slot: Option<summary of the previous invocation>

vars == <<files, inputDir, pc, args, env, targets, problems, day, file, part, data,
          result, effects, snap, runs, last>>

fsVars == <<files, inputDir>>
inputVars == <<args, env, targets, problems, snap>>
localVars == <<day, file, part, data>>
histVars == <<runs, last>>

\* Workspaces an invocation can find: days 1..k implemented, the last of them
\* with either text and the earlier ones solved; the template there or not;
\* inputs/ missing ("none"), empty, or holding the inputs of days 1..k ("full").
Workspace(k, lastText, tmpl, inputs) ==
    [p \in Paths |->
        IF p = TemplatePath THEN tmpl
        ELSE IF \E d \in 1..k : p = DayFile(d)
             THEN (IF p = DayFile(k) THEN Some(lastText) ELSE Some(SolvedText))
        ELSE IF inputs = "full" /\ \E d \in 1..k : p = InputFile(d) THEN Some(OldInput)
        ELSE None]

NoArgs == CHOOSE a \in ArgsOf("Open") : a.cookie = None /\ a.day = None
\* No variable read yet.
NoEnv == <<>>

\* No invocation has started, those of `running` are about to; the workspace is
\* one of those given.
InitIn(ks, tmpls, inputsIn, running) ==
    /\ \E k \in ks, lastText \in Texts, tmpl \in tmpls, inputs \in inputsIn :
            /\ files = Workspace(k, lastText, tmpl, inputs)
            /\ inputDir = (inputs # "none")
    /\ pc = [p \in Procs |-> IF p \in running THEN "start" ELSE "off"]
    /\ args = [p \in Procs |-> NoArgs]
    /\ env = [p \in Procs |-> NoEnv]
    /\ targets = [p \in Procs |-> <<>>]
    /\ problems = [p \in Procs |-> <<>>]
    /\ day = [p \in Procs |-> None]
    /\ file = [p \in Procs |-> None]
    /\ part = [p \in Procs |-> None]
    /\ data = [p \in Procs |-> None]
    /\ result = [p \in Procs |-> ""]
    /\ effects = [p \in Procs |-> <<>>]
    /\ snap = [p \in Procs |-> [files |-> files, inputDir |-> inputDir]]
    /\ runs = [p \in Procs |-> 0]
    /\ last = [p \in Procs |-> None]

Init == InitIn(0..MaxDay, {None, Some(TemplateText)}, {"none", "empty", "full"}, {1})

\* The workspaces of the first of several invocations: a template, at most one
\* day implemented, inputs/ missing or holding that day's input.
InitTwice == InitIn(0..1, {Some(TemplateText)}, {"none", "full"}, {1})

\* ------------------------------------------------------------ control flow

\* main() returns Err(err): eyre::bail! or `?`.
Fail(p, err) ==
    /\ pc' = [pc EXCEPT ![p] = "done"]
    /\ result' = [result EXCEPT ![p] = err]

\* main() returns Ok(()) (line 242).
Finish(p) ==
    /\ pc' = [pc EXCEPT ![p] = "done"]
    /\ result' = [result EXCEPT ![p] = "Ok"]

Goto(p, label) ==
    /\ pc' = [pc EXCEPT ![p] = label]
    /\ UNCHANGED result

\* Where control goes from `label`; "return" is the Ok(()) of line 242.
Continue(p, label) == IF label = "return" THEN Finish(p) ELSE Goto(p, label)

Effect(p, e) == effects' = [effects EXCEPT ![p] = Append(@, e)]

\* New opening the browser before it fetches, and then not fetching.
AfterCopyOpenFirst(a) ==
    IF ~a.no_open THEN "browser"
    ELSE IF ~a.no_fetch THEN "fetch"
    ELSE IF ~a.no_edit THEN "editor" ELSE "return"
\* New, after the copy (lines 153-166): the first step its flags leave enabled.
AfterOpen(a) == IF ~a.no_edit THEN "editor" ELSE "return"
AfterFetch(a) == IF ~a.no_open THEN "browser" ELSE AfterOpen(a)
AfterCopy(a) == IF ~a.no_fetch THEN "fetch" ELSE AfterFetch(a)

\* Where fetch() and open_problem() return to.
FetchReturn(a) == IF a.command = "New" THEN AfterFetch(a) ELSE "return"
BrowserReturn(a) == IF a.command = "New" THEN AfterOpen(a) ELSE "return"

\* The match on the command (line 129).
Entry(cmd) ==
    CASE cmd = "New" -> "new"
      [] cmd = "Open" -> "open"
      [] cmd = "Edit" -> "edit"
      [] cmd = "Fetch" -> "fetch_cmd"
      [] cmd = "Run" -> "run"

\* ------------------------------------------------------------------ main()

\* Lines 105-124: cargo metadata reports the targets of the root package (every
\* invocation asks again) and the registry is collected from them as they are
\* given: what the manifest declares or lets cargo discover decides them, so a
\* day file on disk need not be a target, nor a target have its file. A target
\* name that does not parse ends the invocation before the command line is
\* looked at, and so does cargo metadata failing or reporting no root package.
LoadRegistry(p) ==
    /\ pc[p] = "start"
    /\ \/ \E ts \in TargetLists :
            /\ targets' = [targets EXCEPT ![p] = ts]
            /\ problems' = [problems EXCEPT ![p] = Registry(ts).map]
            /\ IF Registry(ts).ok THEN Goto(p, "parse") ELSE Fail(p, "Registry")
       \/ /\ Fail(p, "Metadata")
          /\ UNCHANGED <<targets, problems>>
    /\ snap' = [snap EXCEPT ![p] = [files |-> files, inputDir |-> inputDir]]
    /\ runs' = [runs EXCEPT ![p] = @ + 1]
    /\ UNCHANGED <<fsVars, args, env, localVars, effects, last>>

\* Lines 126-129: the command line is parsed and the command dispatched. A
\* second invocation in the same slot repeats the command line of the first.
\* package.targets is not read again: the model forgets it here.
ParseArgs(p) ==
    /\ pc[p] = "parse"
    /\ \E cmd \in Commands :
         \E a \in ArgsOf(cmd) :
           /\ \A l \in last[p] : a = l.args
           /\ args' = [args EXCEPT ![p] = a]
           /\ Goto(p, Entry(cmd))
    /\ targets' = [targets EXCEPT ![p] = <<>>]
    /\ UNCHANGED <<fsVars, env, problems, snap, localVars, effects, histVars>>

\* --------------------------------------------------------------------- New

\* Lines 136-149: the template must exist; the day is resolved; an existing
\* day file is refused unless `force`.
NewCheck(p) ==
    /\ pc[p] = "new"
    /\ LET d == ResolveNew(args[p].day, problems[p])
           to == NewEntry(files[TemplatePath], files[DayFile(d)], args[p].force)
       IN  IF to = "NoTemplate"
           THEN Fail(p, to) /\ UNCHANGED <<day, file>>
           ELSE /\ day' = [day EXCEPT ![p] = Some(d)]
                /\ file' = [file EXCEPT ![p] = Some(DayFile(d))]
                /\ IF to = "AlreadyExists" THEN Fail(p, to) ELSE Goto(p, to)
    /\ UNCHANGED <<fsVars, inputVars, part, data, effects, histVars>>

\* Line 151, std::fs::copy(&template, &day_file)?, first half: the template is
\* opened for reading and the day file with create and truncate, so that it
\* exists and is empty from here on. When the template is gone or the day file
\* cannot be opened the copy fails and has written nothing.
NewCopy(p) ==
    /\ pc[p] = "new_copy"
    /\ LET dst == Unwrap(file[p]) IN
       \/ /\ files[TemplatePath] # None
          /\ files' = [files EXCEPT ![dst] = Some(<<>>)]
          /\ UNCHANGED effects
          /\ Goto(p, "new_copy_write")
       \/ /\ UNCHANGED files
          /\ Effect(p, <<"copy", dst, "err">>)
          /\ Fail(p, "Io")
    /\ UNCHANGED <<inputDir, inputVars, localVars, histVars>>

\* Line 151, second half: the template's bytes are written to the day file
\* from offset 0: all of them, or the first k before the copy fails (a full
\* disk, a file size limit, an I/O error), which leaves the day file empty or
\* holding part of the template, or all of it: the copy asks for more bytes
\* after the last one, and that call can fail too.
NewCopyWrite(p) ==
    /\ pc[p] = "new_copy_write"
    /\ LET dst == Unwrap(file[p])
           text == Unwrap(files[TemplatePath])
           old == Unwrap(files[dst])
       IN  \/ /\ files' = [files EXCEPT ![dst] = Some(WriteAt0(old, text))]
              /\ Effect(p, <<"copy", dst, "ok">>)
              /\ Continue(p, AfterCopy(args[p]))
           \/ \E k \in 0..Len(text) :
              /\ files' = [files EXCEPT ![dst] = Some(WriteAt0(old, SubSeq(text, 1, k)))]
              /\ Effect(p, <<"copy", dst, "err">>)
              /\ Fail(p, "Io")
    /\ UNCHANGED <<inputDir, inputVars, localVars, histVars>>

\* ------------------------------------------------------------------- fetch

\* Lines 189-196: Fetch resolves its day and calls fetch().
FetchCmd(p) ==
    /\ pc[p] = "fetch_cmd"
    /\ day' = [day EXCEPT ![p] = Some(ResolveFetch(args[p].day, problems[p]))]
    /\ Goto(p, "fetch")
    /\ UNCHANGED <<fsVars, inputVars, file, part, data, effects, histVars>>

\* Lines 68-72: no cookie is an error; then whether inputs/ exists is looked up.
FetchCheck(p) ==
    /\ pc[p] = "fetch"
    /\ LET to == FetchEntry(args[p].cookie, inputDir) IN
       IF to = "NoCookie" THEN Fail(p, to) ELSE Goto(p, to)
    /\ UNCHANGED <<fsVars, inputVars, localVars, effects, histVars>>

\* Line 73: std::fs::create_dir(input_dir)?. It fails when the directory exists
\* by now (created since line 72 looked), and may fail when it cannot be
\* created.
FetchMkdir(p) ==
    /\ pc[p] = "fetch_mkdir"
    /\ \/ /\ ~inputDir
          /\ inputDir' = TRUE
          /\ Effect(p, <<"mkdir", "inputs", "ok">>)
          /\ Goto(p, "fetch_get")
       \/ /\ UNCHANGED inputDir
          /\ Effect(p, <<"mkdir", "inputs", IF inputDir THEN "exists" ELSE "err">>)
          /\ Fail(p, "Io")
    /\ UNCHANGED <<files, inputVars, localVars, histVars>>

\* A transport error swallowed: fetch() goes on with an empty body.
TransportErrorIgnored(p) ==
    /\ data' = [data EXCEPT ![p] = Some(<<>>)]
    /\ Goto(p, "fetch_open")
\* send()? or bytes()? returning the transport error (lines 83-84).
TransportError(p) ==
    /\ UNCHANGED data
    /\ Fail(p, "Network")

\* Lines 76-84: the cookie header is built (an invalid value is an error and no
\* request is made), then one GET is sent and its body read whole. The request
\* fails in transport, or any status arrives with a body: send() does not turn
\* a status into an error.
FetchGet(p) ==
    /\ pc[p] = "fetch_get"
    /\ LET cookie == Unwrap(args[p].cookie)
           url == <<args[p].year, Unwrap(day[p])>>
       IN  IF ~HeaderValid(SessionHeader(cookie))
           THEN Fail(p, "InvalidHeader") /\ UNCHANGED <<data, effects>>
           ELSE \/ /\ Effect(p, <<"GET", url, cookie, "err">>)
                   /\ TransportError(p)
                \/ \E r \in Responses :
                   /\ Effect(p, <<"GET", url, cookie, "ok", r.status>>)
                   /\ data' = [data EXCEPT ![p] = Some(r.body)]
                   /\ Goto(p, "fetch_open")
    /\ UNCHANGED <<fsVars, inputVars, day, file, part, histVars>>

\* Lines 86-90: the input file is opened with create and truncate: it is empty
\* from here on, unless the open fails (inputs/ is gone, or no permission).
FetchOpen(p) ==
    /\ pc[p] = "fetch_open"
    /\ LET path == InputFile(Unwrap(day[p])) IN
       \/ /\ inputDir
          /\ files' = [files EXCEPT ![path] = Some(<<>>)]
          /\ Effect(p, <<"open", path, "ok">>)
          /\ Goto(p, "fetch_write")
       \/ /\ UNCHANGED files
          /\ Effect(p, <<"open", path, "err">>)
          /\ Fail(p, "Io")
    /\ UNCHANGED <<inputDir, inputVars, localVars, histVars>>

\* Line 92: write_all(&data)?. It writes the whole body, or fails after writing
\* only the first k bytes of it (a full disk, an I/O error). The bytes go to
\* offset 0 of the file as it is now: empty since the open of this invocation,
\* unless another one has written to it since.
FetchWrite(p) ==
    /\ pc[p] = "fetch_write"
    /\ LET path == InputFile(Unwrap(day[p]))
           body == Unwrap(data[p])
           old == Unwrap(files[path])
       IN  \/ /\ files' = [files EXCEPT ![path] = Some(WriteAt0(old, body))]
              /\ Effect(p, <<"write", path, Len(body)>>)
              /\ Continue(p, FetchReturn(args[p]))
           \/ \E k \in 0..(Len(body) - 1) :
              /\ files' = [files EXCEPT ![path] = Some(WriteAt0(old, SubSeq(body, 1, k)))]
              /\ Effect(p, <<"write", path, k>>)
              /\ Fail(p, "Io")
    /\ UNCHANGED <<inputDir, inputVars, localVars, histVars>>

\* ------------------------------------------------------------ open_problem

\* Lines 168-171: Open resolves its day, or has none.
OpenCmd(p) ==
    /\ pc[p] = "open"
    /\ LET d == ResolveExisting(args[p].day, problems[p]) IN
       /\ day' = [day EXCEPT ![p] = d]
       /\ IF d = None THEN Fail(p, "NoDay") ELSE Goto(p, "browser")
    /\ UNCHANGED <<fsVars, inputVars, file, part, data, effects, histVars>>

\* Lines 97-103: firefox is spawned and waited for. Failing to start it, or to
\* wait for it, is an error; its exit status is dropped.
Browser(p) ==
    /\ pc[p] = "browser"
    /\ LET url == <<args[p].year, Unwrap(day[p])>> IN
       \E o \in ChildOutcomes :
          /\ Effect(p, <<"firefox", url>> \o o.log)
          /\ IF OpenProblemError(o) = None
             THEN Continue(p, BrowserReturn(args[p]))
             ELSE Fail(p, Unwrap(OpenProblemError(o)))
    /\ UNCHANGED <<fsVars, inputVars, localVars, histVars>>

\* ------------------------------------------------------------------ editor

\* Lines 175-182: Edit resolves its day and looks its source file up.
EditCmd(p) ==
    /\ pc[p] = "edit"
    /\ LET d == ResolveExisting(args[p].day, problems[p]) IN
       /\ day' = [day EXCEPT ![p] = d]
       /\ IF d = None THEN Fail(p, "NoDay") /\ UNCHANGED file
          ELSE IF Get(problems[p], Unwrap(d)) = None
               THEN Fail(p, "NoFile") /\ UNCHANGED file
          ELSE /\ file' = [file EXCEPT ![p] = Get(problems[p], Unwrap(d))]
               /\ Goto(p, "editor")
    /\ UNCHANGED <<fsVars, inputVars, part, data, effects, histVars>>

\* Lines 161-166 and 184-187: $EDITOR is read, then exec replaces the process
\* by the editor; exec returns only when it failed.
Editor(p) ==
    /\ pc[p] = "editor"
    /\ \E editor \in EnvValues("EDITOR") :
         /\ env' = [env EXCEPT ![p] = ("EDITOR" :> editor) @@ @]
         /\ IF editor = None
            THEN Fail(p, "EnvVar") /\ UNCHANGED effects
            ELSE \/ /\ Effect(p, <<"exec", Unwrap(editor), Unwrap(file[p]), "ok">>)
                    /\ pc' = [pc EXCEPT ![p] = "done"]
                    /\ result' = [result EXCEPT ![p] = "Exec"]
                 \/ /\ Effect(p, <<"exec", Unwrap(editor), Unwrap(file[p]), "err">>)
                    /\ Fail(p, "Io")
    /\ UNCHANGED <<fsVars, args, targets, problems, snap, localVars, histVars>>

\* --------------------------------------------------------------------- Run

\* Lines 203-211: $CARGO is read, the day resolved and its source looked up.
RunCmd(p) ==
    /\ pc[p] = "run"
    /\ \E cargo \in EnvValues("CARGO") :
         /\ env' = [env EXCEPT ![p] = ("CARGO" :> cargo) @@ @]
         /\ IF cargo = None
            THEN Fail(p, "EnvVar") /\ UNCHANGED <<day, file>>
            ELSE LET d == ResolveExisting(args[p].day, problems[p]) IN
                 /\ day' = [day EXCEPT ![p] = d]
                 /\ IF d = None THEN Fail(p, "NoDay") /\ UNCHANGED file
                    ELSE IF Get(problems[p], Unwrap(d)) = None
                         THEN Fail(p, "NotImplemented") /\ UNCHANGED file
                    ELSE /\ file' = [file EXCEPT ![p] = Get(problems[p], Unwrap(d))]
                         /\ Goto(p, "run_read")
    /\ UNCHANGED <<fsVars, args, targets, problems, snap, part, data, effects, histVars>>

\* Lines 213-225: the source is read and the part chosen.
RunRead(p) ==
    /\ pc[p] = "run_read"
    /\ LET path == Unwrap(file[p]) IN
       IF files[path] = None
       THEN /\ Effect(p, <<"read", path, "err">>)
            /\ Fail(p, "Io")
            /\ UNCHANGED part
       ELSE /\ Effect(p, <<"read", path, "ok">>)
            /\ part' = [part EXCEPT ![p] = Some(ChoosePart(args[p].part, Unwrap(files[path])))]
            /\ Goto(p, "run_cargo")
    /\ UNCHANGED <<fsVars, inputVars, day, file, data, histVars>>

\* Lines 227-242: cargo is run and waited for (status() does both). Failing to
\* start it or to wait for it is an error; its exit status is dropped and
\* main() returns Ok(()).
RunCargo(p) ==
    /\ pc[p] = "run_cargo"
    /\ LET argv == CargoArgs(Unwrap(day[p]), args[p].release, Unwrap(part[p]),
                             args[p].input)
       IN  \E o \in ChildOutcomes :
              /\ Effect(p, <<"cargo", argv>> \o o.log)
              /\ IF StatusError(o) = None
                 THEN Finish(p)
                 ELSE Fail(p, Unwrap(StatusError(o)))
    /\ UNCHANGED <<fsVars, inputVars, localVars, histVars>>

\* ------------------------------------------------------------- environment

\* The i-th key of the registry in ascending order.
KeyAt(map, i) ==
    CHOOSE k \in DOMAIN map : Cardinality({j \in DOMAIN map : j <= k}) = i

\* A New for an explicit day, without `force`, that got as far as its copy
\* (which succeeded or failed) is over, and the same command line is given
\* again.
\* What is kept of the invocation that ended: its command line, how it ended,
\* whether it copied the template, and the files it left.
Again(p) ==
    /\ pc[p] = "done"
    /\ runs[p] < MaxRuns
    /\ args[p].command = "New" /\ args[p].day # None /\ ~args[p].force
    /\ \E i \in 1..Len(effects[p]) : effects[p][i][1] = "copy"
    /\ last' = [last EXCEPT ![p] =
                  Some([args |-> args[p],
                        result |-> result[p],
                        copied |-> \E i \in 1..Len(effects[p]) :
                                      effects[p][i][1] = "copy" /\ effects[p][i][3] = "ok",
                        files |-> files])]
    /\ pc' = [pc EXCEPT ![p] = "start"]
    /\ result' = [result EXCEPT ![p] = ""]
    /\ effects' = [effects EXCEPT ![p] = <<>>]
    /\ day' = [day EXCEPT ![p] = None]
    /\ file' = [file EXCEPT ![p] = None]
    /\ part' = [part EXCEPT ![p] = None]
    /\ data' = [data EXCEPT ![p] = None]
    /\ env' = [env EXCEPT ![p] = NoEnv]
    /\ targets' = [targets EXCEPT ![p] = <<>>]
    /\ problems' = [problems EXCEPT ![p] = <<>>]
    /\ UNCHANGED <<fsVars, args, snap, runs>>

\* Between two invocations the user replaces the template by another text.
EditTemplate ==
    /\ \A p \in Procs : pc[p] \in {"start", "off"}
    /\ \E p \in Procs : last[p] # None
    /\ files[TemplatePath] # None
    /\ \E t \in Texts \ files[TemplatePath] :
         files' = [files EXCEPT ![TemplatePath] = Some(t)]
    /\ UNCHANGED <<inputDir, pc, inputVars, localVars, result, effects, histVars>>

\* A package with a default manifest that declares no target: cargo reports
\* the targets it discovers in the workspace as it is when asked, with or without the
\* package's own binary, and no other.
PlainTargets(p) ==
    pc[p] = "parse"
    => {targets[p][i] : i \in 1..Len(targets[p])} \ {Target(<<"m", "a", "i", "n">>)}
          = Discovered(files)

\* Lines 105-124 in such a package.
LoadRegistryPlain(p) == LoadRegistry(p) /\ PlainTargets(p)'

Step(p) ==
    \/ LoadRegistry(p) \/ ParseArgs(p)
    \/ NewCheck(p) \/ NewCopy(p) \/ NewCopyWrite(p)
    \/ FetchCmd(p) \/ FetchCheck(p) \/ FetchMkdir(p) \/ FetchGet(p)
    \/ FetchOpen(p) \/ FetchWrite(p)
    \/ OpenCmd(p) \/ Browser(p)
    \/ EditCmd(p) \/ Editor(p)
    \/ RunCmd(p) \/ RunRead(p) \/ RunCargo(p)

\* One invocation of the tool, in any workspace.
Next == \E p \in Procs : Step(p)

Spec == Init /\ [][Next]_vars

\* The steps of an invocation in a package that declares no target.
StepTwice(p) ==
    \/ LoadRegistryPlain(p) \/ ParseArgs(p)
    \/ NewCheck(p) \/ NewCopy(p) \/ NewCopyWrite(p)
    \/ FetchCmd(p) \/ FetchCheck(p) \/ FetchMkdir(p) \/ FetchGet(p)
    \/ FetchOpen(p) \/ FetchWrite(p)
    \/ OpenCmd(p) \/ Browser(p)
    \/ EditCmd(p) \/ Editor(p)
    \/ RunCmd(p) \/ RunRead(p) \/ RunCargo(p)

\* One invocation in such a package, and New for an explicit day without
\* `force` given again after it ended, the template edited in between.
NextTwice == (\E p \in Procs : StepTwice(p)) \/ (\E p \in Procs : Again(p)) \/ EditTemplate

SpecTwice == InitTwice /\ [][NextTwice]_vars

\* The workspaces two concurrent invocations start in: a template, no day
\* implemented, inputs/ missing or empty.
InitPair == InitIn({0}, {Some(TemplateText)}, {"none", "empty"}, Procs)

\* The command lines of two concurrent invocations: New (creating only: no
\* browser, no editor, no `force`) or Fetch, with a valid cookie and an explicit
\* day, which is day 1 for the first invocation.
PairArgs(p) ==
    {a \in ArgsOf("New") \cup ArgsOf("Fetch") :
        /\ a.cookie = Some(GoodCookie)
        /\ a.day \in (IF p = 1 THEN {Some(1)} ELSE {Some(d) : d \in Days})
        /\ a.command = "New" => (a.no_open /\ a.no_edit /\ ~a.force)}

\* The invocation was given one of these command lines.
PairInputs(p) ==
    pc[p] \notin {"off", "start", "parse"} => args[p] \in PairArgs(p)

\* The start of an invocation with one of these command lines.
ParseArgsPair(p) == ParseArgs(p) /\ PairInputs(p)'

\* The steps of New and of Fetch with these command lines.
StepPair(p) ==
    \/ LoadRegistryPlain(p) \/ ParseArgsPair(p)
    \/ NewCheck(p) \/ NewCopy(p) \/ NewCopyWrite(p)
    \/ FetchCmd(p) \/ FetchCheck(p) \/ FetchMkdir(p) \/ FetchGet(p)
    \/ FetchOpen(p) \/ FetchWrite(p)

\* Two invocations at once, their steps interleaved in any order.
NextPair == \E p \in Procs : StepPair(p)

SpecPair == InitPair /\ [][NextPair]_vars

\* ------------------------------------------------------------ vocabulary

\* The invocation has parsed its command line and has not been restarted.
Started(p) ==
    pc[p] \notin {"off", "start", "parse"} /\ result[p] \notin {"Registry", "Metadata"}
Done(p) == pc[p] = "done"
Failed(p) == Done(p) /\ result[p] \notin {"Ok", "Exec"}

EffectsOf(p) == {effects[p][i] : i \in 1..Len(effects[p])}
\* The effects of one kind: "copy", "mkdir", "GET", "open", "write", "firefox",
\* "exec", "read", "cargo".
Did(p, op) == {e \in EffectsOf(p) : e[1] = op}

\* New has copied the template to the day file.
Copied(p) == \E e \in Did(p, "copy") : e[3] = "ok"

\* The greatest key of a non-empty registry.
MaxKey(map) == CHOOSE m \in DOMAIN map : \A k \in DOMAIN map : k <= m

\* The effect e is about day d and nothing else: the paths, the URL and the
\* binary it names are those of day d.
EffectOn(e, d, map) ==
    CASE e[1] = "copy" -> e[2] = <<"src/bin", DayName(d) \o <<".rs">>>>
      [] e[1] = "mkdir" -> TRUE
      [] e[1] \in {"GET", "firefox"} -> e[2] = <<Year, d>>
      [] e[1] \in {"open", "write"} -> e[2] = <<"inputs", DayName(d)>>
      [] e[1] = "exec" -> \/ e[3] = <<"src/bin", DayName(d) \o <<".rs">>>>
                          \/ (d \in DOMAIN map /\ e[3] = map[d])
      [] e[1] = "read" -> d \in DOMAIN map /\ e[2] = map[d]
      [] e[1] = "cargo" -> e[2][3] = DayName(d)

\* The positions at which an invocation is about to touch the outside world
\* for its day.
ActingLabels ==
    {"new_copy", "new_copy_write", "fetch", "fetch_mkdir", "fetch_get", "fetch_open", "fetch_write",
     "browser", "editor", "run_read", "run_cargo"}

\* The invocation acts on day d: the day it resolved is d, it has resolved it
\* before it acts, and every effect is on d.
ActsOn(p, d) ==
    /\ day[p] # None => day[p] = Some(d)
    /\ pc[p] \in ActingLabels => day[p] = Some(d)
    /\ \A e \in EffectsOf(p) : EffectOn(e, d, problems[p])

\* ------------------------------------------------------------------ claims

\* C1: New twice for the same explicit day without `force`. When the first
\* invocation copied the template to src/bin/day{N}.rs, the day file holds the
\* template's text, and the second invocation performs no effect at all (no
\* copy, fetch, browser or editor), ends with an error, which is the
\* already-exists error whenever cargo metadata answered and the registry was
\* collected, and the day file still holds what it held after the first
\* invocation, whatever the template has become in between.
C1_NewTwiceRefuses ==
    \A p \in Procs : \A l \in last[p] : \A d \in l.args.day :
        (l.args.command = "New" /\ ~l.args.force /\ l.copied)
        => /\ l.files[DayFile(d)] = l.files[TemplatePath]
           /\ effects[p] = <<>>
           /\ files[DayFile(d)] = l.files[DayFile(d)]
           /\ pc[p] \in {"start", "parse", "new", "done"}
           /\ Done(p) => Failed(p)
           /\ (Done(p) /\ Started(p)) => result[p] = "AlreadyExists"

\* C1 witness: the second New has ended with the refusal, after a first one
\* that copied, and the template is no longer the text that was copied.
C1_Witness ==
    \E p \in Procs : \E l \in last[p] : \E d \in l.args.day :
        /\ l.args.command = "New" /\ ~l.args.force /\ l.copied
        /\ Done(p) /\ result[p] = "AlreadyExists"
        /\ files[TemplatePath] # l.files[TemplatePath]
        /\ files[DayFile(d)] = Some(TemplateText)

\* C2 as stated: with no explicit day and a non-empty registry, each of the
\* five commands acts on the maximum key of the registry.
C2_Original ==
    \A p \in Procs :
        (Started(p) /\ args[p].day = None /\ DOMAIN problems[p] # {})
        => ActsOn(p, MaxKey(problems[p]))

\* C2 amended: with no explicit day and a non-empty registry, Open, Edit, Fetch
\* and Run act on the maximum key of the registry, and New acts on the maximum
\* key plus one.
C2_MaxKeyOrNext ==
    \A p \in Procs :
        (Started(p) /\ args[p].day = None /\ DOMAIN problems[p] # {})
        => IF args[p].command = "New"
           THEN ActsOn(p, MaxKey(problems[p]) + 1)
           ELSE ActsOn(p, MaxKey(problems[p]))

\* C2 witness: New, given no day, has copied the template to the file of the
\* day after the last one of a registry of two days.
C2_Witness ==
    \E p \in Procs :
        /\ args[p].command = "New" /\ args[p].day = None
        /\ DOMAIN problems[p] = {1, 2}
        /\ Did(p, "copy") = {<<"copy", DayFile(3), "ok">>}

\* C3: with no explicit day and an empty registry, New and Fetch act on day 1,
\* and Open, Edit and Run end with an error having performed no effect: no
\* process spawned or exec'd, no file read or written, no request sent.
C3_EmptyRegistry ==
    \A p \in Procs :
        (Started(p) /\ args[p].day = None /\ DOMAIN problems[p] = {})
        => IF args[p].command \in {"New", "Fetch"}
           THEN ActsOn(p, 1)
           ELSE /\ effects[p] = <<>>
                /\ files = snap[p].files /\ inputDir = snap[p].inputDir
                /\ pc[p] \in {"open", "edit", "run", "done"}
                /\ Done(p) => Failed(p)

\* C3 witness: Run, given no day and an empty registry, has ended with the
\* no-day error.
C3_Witness ==
    \E p \in Procs :
        /\ args[p].command = "Run" /\ args[p].day = None
        /\ DOMAIN problems[p] = {}
        /\ Done(p) /\ result[p] = "NoDay"

\* C4: with an explicit day d, every command acts on d, whatever days the
\* registry holds.
C4_ExplicitDay ==
    \A p \in Procs : \A d \in args[p].day :
        Started(p) => ActsOn(p, d)

\* C4 witness: Fetch for the explicit day 1 has sent its request although the
\* registry holds day 2 only.
C4_Witness ==
    \E p \in Procs :
        /\ args[p].command = "Fetch" /\ args[p].day = Some(1)
        /\ DOMAIN problems[p] = {2}
        /\ Did(p, "GET") # {}

\* C5 as stated: whenever Run started the build tool and it exited, the tool's
\* own exit status is the build tool's (zero exactly when the build tool's is).
C5_Original ==
    \A p \in Procs :
        (Done(p) /\ args[p].command = "Run")
        => \A e \in Did(p, "cargo") :
              e[3] = "exit" => ExitStatus(result[p]) = e[4]

\* The positions of an invocation inside fetch().
FetchLabels == {"fetch", "fetch_mkdir", "fetch_get", "fetch_open", "fetch_write"}

\* The input files are those the invocation found when it started.
InputsUntouched(p) ==
    \A d \in FileDays : files[InputFile(d)] = snap[p].files[InputFile(d)]

\* C6 as stated: once a fetch call is over, however it ended, the input file of
\* its day holds the complete response body or the bytes it held before the
\* call; it is never left empty or partly written.
C6_Original ==
    \A p \in Procs : \A d \in day[p] :
        (Started(p) /\ args[p].command \in {"New", "Fetch"} /\ pc[p] \notin FetchLabels)
        => \/ files[InputFile(d)] = snap[p].files[InputFile(d)]
           \/ (data[p] # None /\ files[InputFile(d)] = data[p])

\* C7: when the request of fetch fails in transport, the invocation ends with
\* the network error, no input file has been opened or written, and every
\* input file holds the bytes it held before.
C7_TransportFailure ==
    \A p \in Procs :
        (\E e \in Did(p, "GET") : e[4] = "err")
        => /\ Done(p) /\ result[p] = "Network"
           /\ Did(p, "open") = {} /\ Did(p, "write") = {}
           /\ InputsUntouched(p)

\* C7 witness: the request for a day whose input file was there before has
\* failed in transport.
C7_Witness ==
    \E p \in Procs : \E d \in day[p] :
        /\ \E e \in Did(p, "GET") : e[4] = "err"
        /\ snap[p].files[InputFile(d)] = Some(OldInput)
        /\ Done(p)

\* C8: an invocation that is to fetch (Fetch, or New without no_fetch) and has
\* no cookie sends no request and neither creates inputs/ nor opens or writes
\* an input file; it ends with an error, which is the missing-cookie error as
\* soon as fetch() was reached (Fetch always, New once it has copied).
C8_NoCookie ==
    \A p \in Procs :
        (/\ Started(p)
         /\ args[p].cookie = None
         /\ args[p].command = "Fetch" \/ (args[p].command = "New" /\ ~args[p].no_fetch))
        => /\ Did(p, "GET") = {} /\ Did(p, "mkdir") = {}
           /\ Did(p, "open") = {} /\ Did(p, "write") = {}
           /\ Did(p, "firefox") = {} /\ Did(p, "exec") = {}
           /\ inputDir = snap[p].inputDir
           /\ InputsUntouched(p)
           /\ Done(p) => Failed(p)
           /\ (Done(p) /\ (args[p].command = "Fetch" \/ Copied(p)))
                => result[p] = "NoCookie"

\* C8 witness: New without a cookie has copied the template, inputs/ does not
\* exist, and the invocation has ended with the missing-cookie error.
C8_Witness ==
    \E p \in Procs :
        /\ args[p].command = "New" /\ args[p].cookie = None
        /\ Did(p, "copy") # {}
        /\ ~inputDir
        /\ Done(p) /\ result[p] = "NoCookie"

\* C9: the part selector Run hands to the build tool follows "--part"; with an
\* explicit part it is that part whatever the source text is, and with none it
\* is "1" for a source holding the marker and "2" for one that does not.
C9_PartSelector ==
    \A p \in Procs : \A e \in Did(p, "cargo") : \A path \in file[p] : \A text \in files[path] :
        LET argv == e[2] IN
        /\ argv[Len(argv) - 3] = "--part"
        /\ argv[Len(argv) - 2] =
              (IF args[p].part = Some("One") THEN "1"
               ELSE IF args[p].part = Some("Two") THEN "2"
               ELSE IF text = TemplateText THEN "1" ELSE "2")

\* C9 witness: Run, given no part, has started the build tool for a day whose
\* source holds the marker.
C9_Witness ==
    \E p \in Procs : \E e \in Did(p, "cargo") :
        /\ args[p].part = None
        /\ files[Unwrap(file[p])] = Some(TemplateText)
        /\ e[3] = "exit"

\* The day Open, Edit and Run are to resolve: the explicit one, else the
\* greatest key, else none.
ExpectedDay(p) ==
    IF args[p].day # None THEN args[p].day
    ELSE IF DOMAIN problems[p] = {} THEN None
    ELSE Some(MaxKey(problems[p]))

\* The day Edit or Run is to act on has no entry in the registry.
MissingSource(p) ==
    /\ Started(p)
    /\ args[p].command \in {"Edit", "Run"}
    /\ \E d \in ExpectedDay(p) : d \notin DOMAIN problems[p]

\* C10 as stated: Edit and Run for a day without a registry entry end with the
\* missing-source error and launch no process.
C10_Original ==
    \A p \in Procs :
        MissingSource(p)
        => /\ effects[p] = <<>>
           /\ Done(p) => result[p] \in {"NoFile", "NotImplemented"}

\* C10 amended: Edit for a day without a registry entry ends with the
\* missing-source error; so does Run when the CARGO variable is set, and when
\* it is not set Run ends with the environment error, raised before the day is
\* looked up. In every case no process is launched and no file is read.
C10_MissingSource ==
    \A p \in Procs :
        MissingSource(p)
        => /\ effects[p] = <<>>
           /\ pc[p] \in {"edit", "run", "done"}
           /\ Done(p) =>
                IF args[p].command = "Edit" THEN result[p] = "NoFile"
                ELSE IF env[p]["CARGO"] = None THEN result[p] = "EnvVar"
                ELSE result[p] = "NotImplemented"

\* C10 witness: Run for the explicit day 2, with CARGO set and a registry that
\* holds day 1 only, has ended with the missing-source error.
C10_Witness ==
    \E p \in Procs :
        /\ args[p].command = "Run" /\ args[p].day = Some(2)
        /\ DOMAIN problems[p] = {1}
        /\ Done(p) /\ result[p] = "NotImplemented"

\* package.targets is known: the registry was just collected from it.
TargetsKnown(p) == pc[p] = "parse" \/ result[p] = "Registry"

\* The names of the targets ts that start with "day".
DayTargetNames(ts) ==
    {ts[i].name : i \in {j \in 1..Len(ts) : StripPrefixDay(ts[j].name) # None}}

\* C11: when the targets whose names start with "day" are named day1..dayN,
\* in any order and among any other targets, the registry is collected without
\* error, its keys are exactly 1..N, the i-th key in ascending order is i, key
\* i is mapped to the source path of the target named day{i}, and the last key
\* is N (there is none for N = 0).
C11_RegistryKeys ==
    \A p \in Procs : \A n \in 0..MaxTargets :
        (TargetsKnown(p) /\ DayTargetNames(targets[p]) = {DayName(d) : d \in 1..n})
        => /\ result[p] # "Registry"
           /\ DOMAIN problems[p] = 1..n
           /\ \A i \in 1..n :
                 /\ KeyAt(problems[p], i) = i
                 /\ \E j \in 1..Len(targets[p]) :
                       /\ targets[p][j].name = <<"d", "a", "y">> \o FormatU64(i)
                       /\ problems[p][i] = targets[p][j].src_path
           /\ LastKey(problems[p]) = (IF n = 0 THEN None ELSE Some(n))

\* C11 witness: the registry was collected from the targets day2, day1, given
\* in descending order, and holds the keys 1 and 2.
C11_Witness ==
    \E p \in Procs :
        /\ pc[p] = "parse"
        /\ Len(targets[p]) = 2
        /\ targets[p][1].name = DayName(2)
        /\ targets[p][2].name = DayName(1)
        /\ DOMAIN problems[p] = {1, 2}
        /\ KeyAt(problems[p], 1) = 1

\* The invocation is over and its fetch wrote the whole body it received.
Fetched(p) ==
    /\ Done(p)
    /\ \E e \in Did(p, "write") : data[p] # None /\ e[3] = Len(Unwrap(data[p]))

\* C12 as stated: of two concurrent invocations for different days, neither
\* fails in a way it could not fail alone (creating inputs/ never fails
\* because the directory exists: alone, it is created only when line 72 found
\* it missing), and each leaves the files it would leave alone: the day file
\* holds the template it copied and the input file the body it wrote.
C12_Original ==
    \A p, q \in Procs :
        (p # q /\ Started(p) /\ Started(q) /\ args[p].day # args[q].day)
        => /\ \A e \in Did(p, "mkdir") : e[3] # "exists"
           /\ \A d \in day[p] :
                 /\ (Done(p) /\ Copied(p)) => files[DayFile(d)] = files[TemplatePath]
                 /\ Fetched(p) => files[InputFile(d)] = data[p]

\* The step of New an effect belongs to: 1 the copy, 2 the fetch, 3 the
\* browser, 4 the editor.
StepOf(e) ==
    CASE e[1] = "copy" -> 1
      [] e[1] \in {"mkdir", "GET", "open", "write"} -> 2
      [] e[1] = "firefox" -> 3
      [] e[1] = "exec" -> 4

\* The call behind the effect returned without error.
Succeeded(p, e) ==
    CASE e[1] \in {"copy", "mkdir", "open"} -> e[3] = "ok"
      [] e[1] = "GET" -> e[4] = "ok"
      [] e[1] = "write" -> e[3] = Len(Unwrap(data[p]))
      [] e[1] = "firefox" -> e[3] = "exit"
      [] e[1] = "exec" -> e[4] = "ok"

\* The fetch step wrote the whole body; the browser was started and waited for.
FetchCompleted(p) == \E e \in Did(p, "write") : Succeeded(p, e)
BrowserCompleted(p) == \E e \in Did(p, "firefox") : Succeeded(p, e)

\* C13: in New the effects come in the order copy, fetch, browser, editor; an
\* effect is performed only when every effect before it succeeded; a step is
\* taken only when its flag enables it and every enabled step before it was
\* completed; after a fetch failure or a failure to start or wait for the
\* browser nothing more is launched; and the exec of the editor is the last
\* effect of the invocation, which is over with it.
C13_NewOrder ==
    \A p \in Procs :
        (Started(p) /\ args[p].command = "New")
        => /\ \A i, j \in 1..Len(effects[p]) :
                 i < j => /\ StepOf(effects[p][i]) <= StepOf(effects[p][j])
                          /\ Succeeded(p, effects[p][i])
           /\ \A e \in EffectsOf(p) :
                 /\ StepOf(e) >= 2 => Copied(p)
                 /\ StepOf(e) = 2 => ~args[p].no_fetch
                 /\ StepOf(e) = 3 => ~args[p].no_open
                 /\ StepOf(e) = 4 => ~args[p].no_edit
                 /\ (StepOf(e) >= 3 /\ ~args[p].no_fetch) => FetchCompleted(p)
                 /\ (StepOf(e) = 4 /\ ~args[p].no_open) => BrowserCompleted(p)
           /\ (Done(p) /\ result[p] \in {"NoCookie", "InvalidHeader", "Network"})
                => Did(p, "firefox") = {} /\ Did(p, "exec") = {}
           /\ (\E e \in EffectsOf(p) : StepOf(e) \in {2, 3} /\ ~Succeeded(p, e))
                => Failed(p) /\ Did(p, "exec") = {}
           /\ \A i \in 1..Len(effects[p]) :
                 effects[p][i][1] = "exec" => i = Len(effects[p]) /\ Done(p)

\* C13 witness: New with every step enabled has copied, fetched, opened the
\* browser and exec'd the editor, in that order.
C13_Witness ==
    \E p \in Procs :
        /\ args[p].command = "New"
        /\ ~args[p].no_fetch /\ ~args[p].no_open /\ ~args[p].no_edit
        /\ Len(effects[p]) >= 4
        /\ effects[p][1][1] = "copy"
        /\ FetchCompleted(p) /\ BrowserCompleted(p)
        /\ effects[p][Len(effects[p])][1] = "exec"
        /\ result[p] = "Exec"

\* C14 as stated: when the GET completes with a status that is no success,
\* fetch opens and writes no input file, every input file holds what it held
\* before, and the fetch ends with an error.
C14_Original ==
    \A p \in Procs : \A e \in Did(p, "GET") :
        (e[4] = "ok" /\ e[5] # 200)
        => /\ Did(p, "open") = {} /\ Did(p, "write") = {}
           /\ InputsUntouched(p)
           /\ pc[p] \notin FetchLabels => Failed(p)

\* A target whose name starts with "day" and goes on with something that is
\* no unsigned integer.
Malformed(ts) ==
    \E i \in 1..Len(ts) :
        /\ Len(ts[i].name) >= 3 /\ SubSeq(ts[i].name, 1, 3) = <<"d", "a", "y">>
        /\ \/ Len(ts[i].name) = 3
           \/ \E j \in 4..Len(ts[i].name) :
                 ts[i].name[j] \notin {"0", "1", "2", "3", "4", "5", "6", "7", "8", "9"}

\* C15: when some target's name starts with "day" and its rest is no unsigned
\* integer, the invocation ends with the registry error before the command
\* line is parsed (so for every command and every day option), with no effect
\* and the workspace as it was. When there is no such target the registry is
\* collected without error, and every entry of it is the source path of a
\* target whose name starts with "day": the other targets do not appear.
C15_MalformedTarget ==
    \A p \in Procs :
        TargetsKnown(p)
        => IF Malformed(targets[p])
           THEN /\ Done(p) /\ result[p] = "Registry"
                /\ args[p] = NoArgs
                /\ effects[p] = <<>>
                /\ files = snap[p].files /\ inputDir = snap[p].inputDir
           ELSE /\ pc[p] = "parse" /\ result[p] = ""
                /\ \A k \in DOMAIN problems[p] :
                      \E i \in 1..Len(targets[p]) :
                         /\ SubSeq(targets[p][i].name, 1, 3) = <<"d", "a", "y">>
                         /\ problems[p][k] = targets[p][i].src_path
                /\ \A i \in 1..Len(targets[p]) :
                      SubSeq(targets[p][i].name, 1, 3) # <<"d", "a", "y">>
                      => \A k \in DOMAIN problems[p] :
                            problems[p][k] # targets[p][i].src_path

\* C15 witness: the targets were day1 and dayx and the invocation has ended
\* with the registry error.
C15_Witness ==
    \E p \in Procs :
        /\ Len(targets[p]) = 2
        /\ targets[p][1].name = DayName(1)
        /\ targets[p][2].name = <<"d", "a", "y", "x">>
        /\ Done(p) /\ result[p] = "Registry"

\* C16: New started in a workspace without template.rs performs no effect (no
\* copy, fetch, browser or editor), leaves every file and inputs/ as they
\* were, and ends with the no-template error, whatever its flags and its day.
C16_NoTemplate ==
    \A p \in Procs :
        (Started(p) /\ args[p].command = "New" /\ snap[p].files[TemplatePath] = None)
        => /\ effects[p] = <<>>
           /\ files = snap[p].files /\ inputDir = snap[p].inputDir
           /\ pc[p] \in {"new", "done"}
           /\ Done(p) => result[p] = "NoTemplate"

\* C16 witness: New with `force` for a day whose file exists has ended with
\* the no-template error.
C16_Witness ==
    \E p \in Procs : \E d \in args[p].day :
        /\ args[p].command = "New" /\ args[p].force
        /\ files[TemplatePath] = None
        /\ files[DayFile(d)] # None
        /\ Done(p) /\ result[p] = "NoTemplate"

\* C17: once the browser was started and waited for, whatever its exit
\* status, Open ends successfully and New goes on: to the editor when it is
\* to edit (where only the editor can still fail it), else to a successful
\* end. When the browser could not be started or waited for, the invocation
\* ends with an error and no editor is exec'd.
C17_BrowserExit ==
    \A p \in Procs : \A e \in Did(p, "firefox") :
        IF e[3] = "exit"
        THEN IF args[p].command = "New" /\ ~args[p].no_edit
             THEN \/ pc[p] = "editor"
                  \/ Done(p) /\ (Did(p, "exec") # {} \/ result[p] = "EnvVar")
             ELSE Done(p) /\ result[p] = "Ok"
        ELSE Failed(p) /\ result[p] \in {"Spawn", "Wait"} /\ Did(p, "exec") = {}

\* C17 witness: in New the browser has exited with status 1 and the editor
\* was exec'd after it.
C17_Witness ==
    \E p \in Procs :
        /\ args[p].command = "New"
        /\ \E e \in Did(p, "firefox") : e[3] = "exit" /\ e[4] = 1
        /\ result[p] = "Exec"

\* C18 as stated, for the input file: when two concurrent fetches for the same
\* day have both written their whole body, the input file holds the body of
\* one of them (that of the last writer).
C18_Original ==
    \A p, q \in Procs : \A d \in day[p] :
        (p # q /\ day[q] = day[p] /\ Fetched(p) /\ Fetched(q))
        => files[InputFile(d)] \in {data[p], data[q]}

\* The errors New ends with when it fails in fetch() or in open_problem()
\* (the I/O errors of fetch() apart, which a failed exec shares).
FetchOrBrowserErrors == {"NoCookie", "InvalidHeader", "Network", "Spawn", "Wait"}

\* C19: after a New that copied the template and then failed in its fetch or
\* browser step, the day file is on disk with the template's text; the same
\* New without `force` again keeps it as it is, never enters fetch(), sends no
\* request, performs no effect, and ends with an error: the already-exists
\* error whenever cargo metadata answered and the registry was collected.
C19_NoRollback ==
    \A p \in Procs : \A l \in last[p] : \A d \in l.args.day :
        (l.args.command = "New" /\ ~l.args.force /\ l.copied
            /\ l.result \in FetchOrBrowserErrors)
        => /\ l.files[DayFile(d)] # None
           /\ l.files[DayFile(d)] = l.files[TemplatePath]
           /\ files[DayFile(d)] = l.files[DayFile(d)]
           /\ pc[p] \in {"start", "parse", "new", "done"}
           /\ Did(p, "GET") = {} /\ effects[p] = <<>>
           /\ \A n \in FileDays : files[InputFile(n)] = l.files[InputFile(n)]
           /\ Done(p) => Failed(p)
           /\ (Done(p) /\ Started(p)) => result[p] = "AlreadyExists"

\* C19 witness: the first New failed in transport after it had copied, no
\* input file was written for its day, and the second New has ended with the
\* already-exists error.
C19_Witness ==
    \E p \in Procs : \E l \in last[p] : \E d \in l.args.day :
        /\ l.args.command = "New" /\ ~l.args.force /\ l.copied
        /\ l.result = "Network"
        /\ files[InputFile(d)] = None
        /\ Done(p) /\ result[p] = "AlreadyExists"

\* The paths an invocation may write: none for Open, Edit and Run, the input
\* file of the resolved day for Fetch, that and the day's source for New.
Writable(p) ==
    IF args[p].command \in {"Open", "Edit", "Run"} THEN {}
    ELSE {<<"inputs", <<"d", "a", "y">> \o FormatU64(d)>> : d \in day[p]}
            \cup (IF args[p].command = "New"
                  THEN {<<"src/bin", <<"d", "a", "y">> \o FormatU64(d) \o <<".rs">>>> :
                           d \in day[p]}
                  ELSE {})

\* C20: every path outside those the command may write holds what it held
\* when the invocation started (the template and the files of other days
\* among them); no file is deleted and inputs/ is never removed; Open, Edit
\* and Run leave inputs/ as it was and perform no copy, mkdir, request, open
\* or write; and an invocation sends at most one GET.
C20_Frame ==
    \A p \in Procs :
        Started(p)
        => /\ \A path \in Paths \ Writable(p) : files[path] = snap[p].files[path]
           /\ \A path \in Paths : snap[p].files[path] # None => files[path] # None
           /\ snap[p].inputDir => inputDir
           /\ args[p].command \in {"Open", "Edit", "Run"}
                => /\ inputDir = snap[p].inputDir
                   /\ \A e \in EffectsOf(p) : e[1] \in {"firefox", "exec", "read", "cargo"}
           /\ Cardinality({i \in 1..Len(effects[p]) : effects[p][i][1] = "GET"}) <= 1

\* C20 witness: New for day 2 has copied the template and written the input
\* of day 2 in a workspace that holds the source and the input of day 1, both
\* as they were.
C20_Witness ==
    \E p \in Procs :
        /\ args[p].command = "New" /\ day[p] = Some(2)
        /\ Copied(p) /\ FetchCompleted(p)
        /\ snap[p].files[InputFile(1)] = Some(OldInput)
        /\ files[InputFile(1)] = Some(OldInput)
        /\ files[DayFile(1)] # None
        /\ files[InputFile(2)] = data[p]

====
